---------------------------- MODULE Spec2Model ----------------------------
(***************************************************************************)
(* Personal Expense Tracker (src/main.py): the SQLite-backed expense store *)
(* and the Streamlit button handlers that drive it.                        *)
(*                                                                         *)
(* Text is a tuple of ASCII character codes, so that LIKE matching and     *)
(* BINARY collation are computed character by character.  An amount is an  *)
(* integer number of thousandths (1000 = 1.00), so that round(amount, 2)   *)
(* is a real conversion.  A Python row is the tuple                        *)
(* <<id, category, amount, date>>; Python's None is the empty tuple.       *)
(***************************************************************************)
EXTENDS Integers, Sequences, FiniteSets, TLC

VARIABLES
    table,             \* the expenses table: live id -> [category, amount, date]
    seq,               \* sqlite_sequence.seq of the AUTOINCREMENT key
    deleted_expenses,  \* st.session_state["deleted_expenses"]
    open_conns,        \* connections opened and not closed
    op,                \* the operation that ran last, with its arguments
    ret,               \* what it returned: [raised, value]
    message,           \* the st.success / st.error / st.write text it showed
    totals             \* what the last script run displayed as totals

vars == <<table, seq, deleted_expenses, open_conns, op, ret, message, totals>>

---------------------------------------------------------------------------
(* Bounds *)

\* Rows inserted in one behaviour.
MaxId == 2

\* Connections that may be left open before the model stops failing calls.
MaxOpen == 1

---------------------------------------------------------------------------
(* Text *)

\* SQLite's LIKE folds the case of ASCII letters only: A..Z onto a..z.
Fold(ch) == IF ch \in 65..90 THEN ch + 32 ELSE ch

\* BINARY collation: memcmp from character i on, a proper prefix sorts first.
RECURSIVE StrLessAt(_, _, _)
StrLessAt(s, t, i) ==
    IF i > Len(t) THEN FALSE
    ELSE IF i > Len(s) THEN TRUE
    ELSE IF s[i] # t[i] THEN s[i] < t[i]
    ELSE StrLessAt(s, t, i + 1)

StrLess(s, t) == StrLessAt(s, t, 1)

\* p[i..] LIKE s[j..]: % (37) is any run of characters, _ (95) is any one
\* character, any other character matches itself in either case.
RECURSIVE LikeAt(_, _, _, _)
LikeAt(p, s, i, j) ==
    IF i > Len(p) THEN j > Len(s)
    ELSE IF p[i] = 37
         THEN LikeAt(p, s, i + 1, j) \/ (j <= Len(s) /\ LikeAt(p, s, i, j + 1))
    ELSE /\ j <= Len(s)
         /\ (p[i] = 95 \/ Fold(p[i]) = Fold(s[j]))
         /\ LikeAt(p, s, i + 1, j + 1)

Like(p, s) == LikeAt(p, s, 1, 1)

\* The character of a decimal digit: "0" is 48.
Digit(n) == 48 + n

\* date.strftime("%Y-%m-%d") of the date <<year, month, day>>; "-" is 45.
strftime(d) ==
    << Digit(d[1] \div 1000), Digit((d[1] \div 100) % 10),
       Digit((d[1] \div 10) % 10), Digit(d[1] % 10), 45,
       Digit(d[2] \div 10), Digit(d[2] % 10), 45,
       Digit(d[3] \div 10), Digit(d[3] % 10) >>

\* round(amount, 2) on thousandths: to the nearest hundredth.  A 5 in the
\* thousandths place is an exact tie only when the double is, and then goes
\* to the even hundredth; the inputs below hold no such amount.
Round2(a) ==
    LET r == a % 10
    IN  IF r < 5 THEN a - r
        ELSE IF r > 5 THEN a - r + 10
        ELSE IF ((a - r) \div 10) % 2 = 0 THEN a - r ELSE a - r + 10

---------------------------------------------------------------------------
(* Inputs *)

Empty == <<>>
None == <<>>

\* "Food", "Transportation Fare", "House Rent", "Clothing"
Food == <<70, 111, 111, 100>>
TransportationFare ==
    <<84, 114, 97, 110, 115, 112, 111, 114, 116, 97, 116, 105, 111, 110,
      32, 70, 97, 114, 101>>
HouseRent == <<72, 111, 117, 115, 101, 32, 82, 101, 110, 116>>
Clothing == <<67, 108, 111, 116, 104, 105, 110, 103>>

\* The selectbox options of the Add Expense form.
categories == {Food, TransportationFare, HouseRent, Clothing}

\* What the user enters into the Add Expense form: a category of the
\* selectbox, an amount (number_input, min_value=0.0) and a date.
\* 0.016 rounds up to 0.02, 1.004 rounds down to 1.00, 0 is refused.
AddInputs ==
    { <<Food, 16, <<2024, 1, 10>>>>,
      <<HouseRent, 1004, <<2024, 1, 2>>>>,
      <<Clothing, 0, <<2024, 1, 2>>>> }

\* What the user enters into the Update form: any text as the new category
\* (nothing, "food", "Food"), an amount (min_value=0.0) and a date.
UpdateInputs ==
    { <<Empty, 0, <<2024, 1, 2>>>>,
      <<<<102, 111, 111, 100>>, 16, <<2024, 1, 10>>>>,
      <<Food, 24, <<2024, 1, 2>>>> }

\* What the user types into "Search by Category":
\* nothing, "o", "OO", "_", "%", "x".
Queries == {Empty, <<111>>, <<79, 79>>, <<95>>, <<37>>, <<120>>}

\* The options of the "Sort By" selectbox, lower-cased.
SortFields == {"category", "amount", "date"}

\* The columns of the expenses table.
Columns == {"id", "category", "amount", "date"}

---------------------------------------------------------------------------
(* The expenses table *)

Row(t, id) == <<id, t[id].category, t[id].amount, t[id].date>>

Rows(t) == {Row(t, id) : id \in DOMAIN t}

MaxRowid(t) == IF DOMAIN t = {} THEN 0
               ELSE CHOOSE m \in DOMAIN t : \A i \in DOMAIN t : i <= m

\* A key without AUTOINCREMENT: one more than the largest rowid in the table.
NextRowidNoAutoincrement(t, s) == MaxRowid(t) + 1

\* INTEGER PRIMARY KEY AUTOINCREMENT: one more than the largest rowid the
\* table has ever held, which sqlite_sequence remembers.
NextRowid(t, s) == (IF s > MaxRowid(t) THEN s ELSE MaxRowid(t)) + 1

\* The value a row holds in a column.
Key(by, r) ==
    CASE by = "id"       -> r[1]
      [] by = "category" -> r[2]
      [] by = "amount"   -> r[3]
      [] by = "date"     -> r[4]

\* The order ORDER BY puts on a column: numbers by value, text by BINARY
\* collation.
KeyLess(by, r1, r2) ==
    IF by \in {"id", "amount"} THEN Key(by, r1) < Key(by, r2)
    ELSE StrLess(Key(by, r1), Key(by, r2))

\* r1 comes before r2 in ORDER BY by ASC|DESC; rows with equal keys stay
\* in rowid order, which is how the sorter reads them.
Before(by, desc, r1, r2) ==
    IF Key(by, r1) = Key(by, r2) THEN r1[1] < r2[1]
    ELSE KeyLess(by, r1, r2) # desc

RECURSIVE OrderBy(_, _, _)
OrderBy(rows, by, desc) ==
    IF rows = {} THEN <<>>
    ELSE LET first == CHOOSE r \in rows :
                          \A o \in rows \ {r} : Before(by, desc, r, o)
         IN  <<first>> \o OrderBy(rows \ {first}, by, desc)

\* A table scan: rows in rowid order.
Scan(t) == OrderBy(Rows(t), "id", FALSE)


---------------------------------------------------------------------------
(* The store functions *)

\* What a store function hands back: whether its statement raised, and the
\* value it returned if it did not.
Returned(v) == [raised |-> FALSE, value |-> v]
Raised == [raised |-> TRUE, value |-> None]

\* add_expense: INSERT INTO expenses (category, amount, date); the key is
\* assigned by the table.
add_expense(t, s, category, amount, date) ==
    LET id == NextRowid(t, s)
    IN  [table |-> [i \in DOMAIN t \cup {id} |->
                      IF i = id
                      THEN [category |-> category, amount |-> Round2(amount),
                            date |-> date]
                      ELSE t[i]],
         seq   |-> id]

\* get_expenses: SELECT * FROM expenses ORDER BY date DESC.
get_expenses(t) == OrderBy(Rows(t), "date", TRUE)

\* What update_expense returns, whether or not a row had the id: it has
\* no return statement.
UpdatedValue == None

\* An UPDATE that lost its WHERE clause.
update_every_expense(t, id, category, amount, date) ==
    [i \in DOMAIN t |->
        [category |-> category, amount |-> Round2(amount), date |-> date]]

\* update_expense: UPDATE expenses SET ... WHERE id = ?; returns None.
update_expense(t, id, category, amount, date) ==
    [i \in DOMAIN t |->
        IF i = id
        THEN [category |-> category, amount |-> Round2(amount), date |-> date]
        ELSE t[i]]

\* A delete that hands back None instead of the row it removed.
delete_expense_silently(t, id) ==
    [table |-> [i \in DOMAIN t \ {id} |-> t[i]], ret |-> None]

\* delete_expense: fetch the row, delete it if it is there, return what
\* was fetched (None when no row has the id).
delete_expense(t, id) ==
    LET deleted_expense == IF id \in DOMAIN t THEN Row(t, id) ELSE None
    IN  IF deleted_expense # <<>>
        THEN [table |-> [i \in DOMAIN t \ {id} |-> t[i]],
              ret   |-> deleted_expense]
        ELSE [table |-> t, ret |-> deleted_expense]

\* search_expenses: SELECT * FROM expenses WHERE category LIKE '%query%'.
search_expenses(t, query) ==
    SelectSeq(Scan(t), LAMBDA r : Like(<<37>> \o query \o <<37>>, r[2]))

\* A sort that ignores the reverse flag.
sort_expenses_ascending(t, by, reverse) ==
    IF by \in Columns THEN Returned(OrderBy(Rows(t), by, FALSE)) ELSE Raised

\* sort_expenses: SELECT * FROM expenses ORDER BY {by} ASC|DESC; a name
\* that is no column makes the statement raise.
sort_expenses(t, by, reverse) ==
    IF by \in Columns THEN Returned(OrderBy(Rows(t), by, reverse)) ELSE Raised

RECURSIVE SumAmount(_)
SumAmount(rs) == IF rs = <<>> THEN 0 ELSE Head(rs)[3] + SumAmount(Tail(rs))

\* The rows of SELECT category, SUM(amount) ... GROUP BY category
\* COLLATE NOCASE: categories that differ only in case share a group.
RECURSIVE GroupByNoCase(_)
GroupByNoCase(rs) ==
    IF rs = <<>> THEN <<>>
    ELSE LET same(r) == Like(Head(rs)[2], r[2]) /\ Like(r[2], Head(rs)[2])
         IN  <<<<Head(rs)[2], SumAmount(SelectSeq(rs, same))>>>>
             \o GroupByNoCase(SelectSeq(rs, LAMBDA r : ~same(r)))

\* The rows of SELECT category, SUM(amount) FROM expenses GROUP BY
\* category, over the rows rs sorted by category: one row per run of equal
\* categories.
RECURSIVE GroupBy(_)
GroupBy(rs) ==
    IF rs = <<>> THEN <<>>
    ELSE LET same(r) == r[2] = Head(rs)[2]
         IN  <<<<Head(rs)[2], SumAmount(SelectSeq(rs, same))>>>>
             \o GroupBy(SelectSeq(rs, LAMBDA r : ~same(r)))

\* get_total_expenses: the per-category sums and the overall sum; SUM over
\* no rows is NULL, which "or 0" turns into 0.
get_total_expenses(t) ==
    LET total_expenses_per_category ==
            GroupBy(OrderBy(Rows(t), "category", FALSE))
        fetchone == IF DOMAIN t = {} THEN <<>> ELSE <<SumAmount(Scan(t))>>
        total_expenses == IF fetchone = <<>> THEN 0 ELSE fetchone[1]
    IN  <<total_expenses_per_category, total_expenses>>

---------------------------------------------------------------------------
(* The application: one script run per button press *)

Init ==
    /\ table = <<>>
    /\ seq = 0
    /\ deleted_expenses = <<>>
    /\ open_conns = 0
    /\ op = [name |-> "create_table"]
    /\ ret = Returned(None)
    /\ message = "No expenses recorded."
    /\ totals = get_total_expenses(<<>>)

\* The end of every script run: the totals are fetched and displayed.
DisplayTotals == totals' = get_total_expenses(table')

AddExpenseButton(category, amount, date) ==
    /\ op' = [name |-> "Add Expense"]
    /\ IF category # Empty /\ amount > 0
       THEN /\ seq < MaxId
            /\ LET added == add_expense(table, seq, category, amount,
                                        strftime(date))
               IN  /\ table' = added.table
                   /\ seq' = added.seq
            /\ message' = "Expense added!"
       ELSE /\ UNCHANGED <<table, seq>>
            /\ message' = "Please fill in all fields correctly."
    /\ ret' = Returned(None)
    /\ UNCHANGED <<deleted_expenses, open_conns>>
    /\ DisplayTotals

UpdateExpenseButton(index) ==
    LET expenses == get_expenses(table)
        selected_expense == expenses[index + 1]
    IN  /\ expenses # <<>>
        /\ index \in 0..(Len(expenses) - 1)
        /\ \E new \in UpdateInputs :
              LET new_category == new[1]
                  new_amount == new[2]
                  new_date == new[3]
              IN  /\ op' = [name |-> "Update Expense",
                            id |-> selected_expense[1],
                            category |-> new_category, amount |-> new_amount,
                            date |-> new_date]
                  /\ table' = update_expense(table, selected_expense[1],
                                             new_category, new_amount,
                                             strftime(new_date))
        /\ ret' = Returned(UpdatedValue)
        /\ message' = "Expense updated!"
        /\ UNCHANGED <<seq, deleted_expenses, open_conns>>
        /\ DisplayTotals

DeleteExpenseButton(index) ==
    LET expenses == get_expenses(table)
        selected_expense == expenses[index + 1]
        deleted_expense == delete_expense(table, selected_expense[1])
    IN  /\ expenses # <<>>
        /\ index \in 0..(Len(expenses) - 1)
        /\ op' = [name |-> "Delete Expense", id |-> selected_expense[1]]
        /\ table' = deleted_expense.table
        /\ ret' = Returned(deleted_expense.ret)
        /\ deleted_expenses' = Append(deleted_expenses, deleted_expense.ret)
        /\ message' = "Expense deleted!"
        /\ UNCHANGED <<seq, open_conns>>
        /\ DisplayTotals

SearchButton(query) ==
    LET results == search_expenses(table, query)
    IN  /\ op' = [name |-> "Search", query |-> query]
        /\ ret' = Returned(results)
        /\ message' = IF results # <<>> THEN "" ELSE "No results found."
        /\ UNCHANGED <<table, seq, deleted_expenses, open_conns>>
        /\ DisplayTotals

SortButton(sort_by, order) ==
    /\ op' = [name |-> "Sort", by |-> sort_by,
              reverse |-> (order = "Descending")]
    /\ ret' = sort_expenses(table, sort_by, order = "Descending")
    /\ message' = "Expenses sorted!"
    /\ UNCHANGED <<table, seq, deleted_expenses, open_conns>>
    /\ DisplayTotals

\* The indexes the "Select Index to Update/Delete" input accepts.
Indexes == 0..(Len(get_expenses(table)) - 1)

Next ==
    \/ \E new \in AddInputs : AddExpenseButton(new[1], new[2], new[3])
    \/ \E i \in Indexes : UpdateExpenseButton(i)
    \/ \E i \in Indexes : DeleteExpenseButton(i)
    \/ \E q \in Queries : SearchButton(q)
    \/ \E f \in SortFields, o \in {"Ascending", "Descending"} :
           SortButton(f, o)

Spec == Init /\ [][Next]_vars

---------------------------------------------------------------------------
(* The store functions called directly, by any caller, with any id.  The   *)
(* Delete Expense handler is the caller that keeps the deleted history.    *)

\* Arguments a caller may pass.
Ids == 1..MaxId
CallCategories == {Empty, Food}
CallAmounts == {16}
CallDates == {strftime(<<2024, 1, 2>>)}
CallColumns == Columns \cup {"bogus"}

\* A function whose statement raises never reaches conn.close(): the
\* connection stays open for as long as the exception keeps the frame
\* alive, and is closed at once if the caller drops it.
Leak ==
    /\ open_conns < MaxOpen
    /\ open_conns' \in {open_conns, open_conns + 1}
    /\ ret' = Raised

\* storage_ok: whether the database accepted the statement.
CallAddExpense(category, amount, date, storage_ok) ==
    /\ op' = [name |-> "add_expense"]
    /\ IF storage_ok
       THEN /\ seq < MaxId
            /\ LET added == add_expense(table, seq, category, amount, date)
               IN  /\ table' = added.table
                   /\ seq' = added.seq
            /\ ret' = Returned(None)
            /\ UNCHANGED open_conns
       ELSE /\ UNCHANGED <<table, seq>>
            /\ Leak
    /\ UNCHANGED <<deleted_expenses, message, totals>>

CallUpdateExpense(id, category, amount, date, storage_ok) ==
    /\ op' = [name |-> "update_expense", id |-> id, category |-> category,
              amount |-> amount, date |-> date]
    /\ IF storage_ok
       THEN /\ table' = update_expense(table, id, category, amount, date)
            /\ ret' = Returned(UpdatedValue)
            /\ UNCHANGED open_conns
       ELSE /\ UNCHANGED table
            /\ Leak
    /\ UNCHANGED <<seq, deleted_expenses, message, totals>>

CallDeleteExpense(id, storage_ok) ==
    /\ op' = [name |-> "delete_expense", id |-> id]
    /\ IF storage_ok
       THEN /\ table' = delete_expense(table, id).table
            /\ ret' = Returned(delete_expense(table, id).ret)
            /\ UNCHANGED open_conns
       ELSE /\ UNCHANGED table
            /\ Leak
    /\ UNCHANGED <<seq, deleted_expenses, message, totals>>

CallSearchExpenses(query) ==
    /\ op' = [name |-> "search_expenses", query |-> query]
    /\ ret' = Returned(search_expenses(table, query))
    /\ UNCHANGED <<table, seq, deleted_expenses, open_conns, message, totals>>

CallSortExpenses(by, reverse) ==
    /\ op' = [name |-> "sort_expenses", by |-> by, reverse |-> reverse]
    /\ IF sort_expenses(table, by, reverse).raised
       THEN Leak
       ELSE /\ ret' = sort_expenses(table, by, reverse)
            /\ UNCHANGED open_conns
    /\ UNCHANGED <<table, seq, deleted_expenses, message, totals>>

CallGetTotalExpenses ==
    /\ op' = [name |-> "get_total_expenses"]
    /\ ret' = Returned(get_total_expenses(table))
    /\ UNCHANGED <<table, seq, deleted_expenses, open_conns, message, totals>>

StoreNext ==
    \/ \E c \in CallCategories, a \in CallAmounts, d \in CallDates,
          ok \in BOOLEAN : CallAddExpense(c, a, d, ok)
    \/ \E id \in Ids, c \in CallCategories, a \in CallAmounts,
          d \in CallDates, ok \in BOOLEAN : CallUpdateExpense(id, c, a, d, ok)
    \/ \E id \in Ids, ok \in BOOLEAN : CallDeleteExpense(id, ok)
    \/ \E q \in Queries : CallSearchExpenses(q)
    \/ \E by \in CallColumns, reverse \in BOOLEAN :
           CallSortExpenses(by, reverse)
    \/ CallGetTotalExpenses
    \/ \E i \in Indexes : DeleteExpenseButton(i)

StoreSpec == Init /\ [][StoreNext]_vars

---------------------------------------------------------------------------
(* Properties *)

LiveIds == DOMAIN table

\* The ids of the expenses in the deleted history.
DeletedIds ==
    {deleted_expenses[i][1] : i \in
        {k \in DOMAIN deleted_expenses : deleted_expenses[k] # None}}

RECURSIVE SetSum(_, _)
SetSum(t, ids) ==
    IF ids = {} THEN 0
    ELSE LET id == CHOOSE i \in ids : TRUE
         IN  t[id].amount + SetSum(t, ids \ {id})

\* x occurs in s as a substring, letters compared without regard to case.
ContainsNoCase(s, x) ==
    \E k \in 0..(Len(s) - Len(x)) :
        \A j \in 1..Len(x) : Fold(s[k + j]) = Fold(x[j])

\* C1: every successful add creates exactly one new live expense, whose id
\* is greater than the id of every live expense and of every expense in the
\* deleted history, and leaves the other live expenses as they were; no id
\* of the deleted history is live again.
C1_AddAssignsFreshId ==
    /\ [][ (op'.name = "Add Expense" /\ message' = "Expense added!") =>
             \E id \in DOMAIN table' :
                /\ id \notin LiveIds
                /\ DOMAIN table' = LiveIds \cup {id}
                /\ \A j \in LiveIds \cup DeletedIds : id > j
                /\ \A j \in LiveIds : table'[j] = table[j] ]_vars
    /\ [](LiveIds \cap DeletedIds = {})

\* An add succeeded on a table that a delete had emptied: the deleted
\* expense held the largest id.
C1_Witness ==
    /\ op.name = "Add Expense"
    /\ message = "Expense added!"
    /\ Len(deleted_expenses) = 1
    /\ Cardinality(LiveIds) = 1
    /\ \A id \in LiveIds : id > deleted_expenses[1][1]

\* C2: a delete of a live id removes exactly that expense from get_all and
\* returns the row it held, and the Delete Expense handler appends that row
\* to the deleted history; the history only ever grows by the row of an
\* expense that was live and no longer is, it holds no id twice and no live
\* id; a delete of an id that is not live (so of any id already in the
\* history) returns None and changes neither the table nor the history.
C2_DeleteMovesToHistory ==
    /\ [][ (op'.name \in {"Delete Expense", "delete_expense"}
            /\ ~ret'.raised) =>
             IF op'.id \in LiveIds
             THEN /\ table' = [i \in LiveIds \ {op'.id} |-> table[i]]
                  /\ ret'.value = Row(table, op'.id)
                  /\ \A k \in DOMAIN get_expenses(table') :
                         get_expenses(table')[k][1] # op'.id
                  /\ op'.name = "Delete Expense" =>
                         deleted_expenses' =
                             Append(deleted_expenses, Row(table, op'.id))
             ELSE /\ ret'.value = None
                  /\ table' = table
                  /\ deleted_expenses' = deleted_expenses ]_vars
    /\ [][ deleted_expenses' # deleted_expenses =>
             \E id \in LiveIds :
                /\ deleted_expenses' =
                       Append(deleted_expenses, Row(table, id))
                /\ id \notin DOMAIN table' ]_vars
    /\ [](/\ \A i \in DOMAIN deleted_expenses : deleted_expenses[i] # None
          /\ \A i, j \in DOMAIN deleted_expenses :
                 deleted_expenses[i][1] = deleted_expenses[j][1] => i = j
          /\ LiveIds \cap DeletedIds = {})

\* delete_expense was called again with the id of an expense that is in
\* the deleted history.
C2_Witness ==
    /\ op.name = "delete_expense"
    /\ ~ret.raised
    /\ ret.value = None
    /\ op.id \in DeletedIds

\* C3: every live expense has a non-empty category and an amount greater
\* than 0.
C3_LiveExpensesValid ==
    \A id \in LiveIds : table[id].category # Empty /\ table[id].amount > 0

\* C4: an update or a delete of an id that is not live leaves the table
\* unchanged and returns something a successful update or delete does not
\* return.
C4_NotFoundReported ==
    [][ (op'.name \in {"update_expense", "delete_expense"}
         /\ ~ret'.raised /\ op'.id \notin LiveIds) =>
          /\ table' = table
          /\ op'.name = "update_expense" => ret'.value # UpdatedValue
          /\ op'.name = "delete_expense" =>
                 \A r \in Rows(table) : ret'.value # r ]_vars

\* C5: an update overwrites the category, the amount (rounded) and the date
\* of the selected expense under its id, keeps the set of live ids, and
\* leaves every other live expense as it was.
C5_UpdateOverwritesOne ==
    [][ op'.name = "Update Expense" =>
          /\ op'.id \in LiveIds
          /\ DOMAIN table' = LiveIds
          /\ table'[op'.id] = [category |-> op'.category,
                               amount   |-> Round2(op'.amount),
                               date     |-> strftime(op'.date)]
          /\ \A j \in LiveIds \ {op'.id} : table'[j] = table[j] ]_vars

\* An update ran while another expense, with other contents, was live.
C5_Witness ==
    /\ op.name = "Update Expense"
    /\ \E j \in LiveIds \ {op.id} : table[j] # table[op.id]

\* C6: a search returns, each once, exactly the live expenses whose category
\* contains the query as a substring without regard to case.
C6_SearchIsSubstringMatch ==
    op.name = "Search" =>
        /\ ~ret.raised
        /\ {ret.value[i] : i \in DOMAIN ret.value} =
               {r \in Rows(table) : ContainsNoCase(r[2], op.query)}
        /\ \A i, j \in DOMAIN ret.value :
               ret.value[i] = ret.value[j] => i = j

\* C7: every live expense's category is one of the four fixed categories.
C7_CategoryInFixedSet ==
    \A id \in LiveIds : table[id].category \in categories

\* C8: the totals displayed by a script run map exactly the categories of
\* the live expenses, each once, to the sum of the amounts of the live
\* expenses of that category, with a grand total that is the sum over all
\* live expenses; on an empty table the mapping is empty and the grand total
\* is 0.
C8_TotalsAreLiveSums ==
    LET per == totals[1]
        live == {table[id].category : id \in LiveIds}
    IN  /\ {per[i][1] : i \in DOMAIN per} = live
        /\ Len(per) = Cardinality(live)
        /\ \A i \in DOMAIN per :
               per[i][2] =
                   SetSum(table, {id \in LiveIds :
                                     table[id].category = per[i][1]})
        /\ totals[2] = SetSum(table, LiveIds)
        /\ LiveIds = {} => per = <<>> /\ totals[2] = 0

\* One expense is live and one, with an amount above 0, is in the deleted
\* history; the totals show a category sum above 0.
C8_Witness ==
    /\ Cardinality(LiveIds) = 1
    /\ Len(deleted_expenses) = 1
    /\ deleted_expenses[1][3] > 0
    /\ totals[2] > 0
    /\ Len(totals[1]) = 1

\* C9: a sort by category, amount or date returns every live expense
\* exactly once, in non-decreasing order of that column, non-increasing when
\* descending, and the table, so what get_all returns, is as it was.
C9_SortIsProjection ==
    [][ op'.name = "Sort" =>
          LET v == ret'.value
          IN  /\ ~ret'.raised
              /\ {v[i] : i \in DOMAIN v} = Rows(table)
              /\ Len(v) = Cardinality(Rows(table))
              /\ \A i, j \in DOMAIN v :
                     i < j => IF op'.reverse
                              THEN ~KeyLess(op'.by, v[i], v[j])
                              ELSE ~KeyLess(op'.by, v[j], v[i])
              /\ table' = table
              /\ get_expenses(table') = get_expenses(table) ]_vars

\* A descending sort returned two expenses with different keys, in an order
\* other than the one get_all shows.
C9_Witness ==
    /\ op.name = "Sort"
    /\ op.reverse
    /\ Len(ret.value) = 2
    /\ KeyLess(op.by, ret.value[2], ret.value[1])
    /\ ret.value # get_expenses(table)

\* C10: between operations no connection is open.
C10_NoOpenConnection == open_conns = 0

=============================================================================
